---- MODULE Spec2Model ----
(***************************************************************************)
(* A model of bigquery_exporter/base.py: the batcher batch_qs and the      *)
(* export pipeline of BigQueryExporter (export, _process_queryset,         *)
(* _process_field, _sanitize_value, _push_to_bigquery).                    *)
(*                                                                         *)
(* Python values are tagged records: the field t names the Python type,    *)
(* the other fields hold the payload.  Every operator looks at t before    *)
(* it reads a payload field, as isinstance() does in the source.           *)
(***************************************************************************)
EXTENDS Integers, Sequences, FiniteSets, TLC

\* Largest number of records held by a record source.
MaxTotal == 3
\* Largest bounded batch size (the unbounded sentinel None comes on top).
MaxBatch == 3
\* Number of distinct readings of the wall clock.
MaxClock == 1
\* Number of export() calls followed on one exporter instance.
MaxCalls == 2

(***************************************************************************)
(* Python values                                                           *)
(***************************************************************************)
NoneVal == [t |-> "none"]

IntVal(n) == [t |-> "int", n |-> n]

StrVal(s) == [t |-> "str", s |-> s]

\* A datetime.datetime at a full hour: day counts the days since 2023-01-01
\* and hour is the hour of that day, both as the value's own clock shows
\* them; aware tells whether tzinfo is set, utcoffset is its offset in hours.
Datetime(day, hour, aware, utcoffset) ==
    [t |-> "datetime", day |-> day, hour |-> hour, aware |-> aware,
     utcoffset |-> utcoffset]

\* The naive datetime of midnight, i days after 2023-01-15.
DatetimeVal(i) == Datetime(14 + i, 0, FALSE, 0)

FloatVal(text) == [t |-> "float", text |-> text]

BoolVal(b) == [t |-> "bool", b |-> b]

BytesVal(bytes) == [t |-> "bytes", bytes |-> bytes]

DictVal(keys) == [t |-> "dict", keys |-> keys]

UUIDVal(u) == [t |-> "uuid", u |-> u]

ListVal(items) == [t |-> "list", items |-> items]

\* The records of record source number id: n distinct model instances, each
\* identified by its primary key.
RecordsOf(id, n) == [i \in 1..n |-> 10 * id + i]

\* A django QuerySet: an identity, its records in query order and the
\* QuerySet.ordered flag.
QuerySet(id, n, ordered) ==
    [t |-> "QuerySet", id |-> id, items |-> RecordsOf(id, n), ordered |-> ordered]

\* The result of qs[start:end]: a new object holding a window of the source.
Slice(qs, start, end) ==
    [t |-> "slice", of |-> qs.id, items |-> SubSeq(qs.items, start + 1, end)]

\* qs.count()
Count(qs) == Len(qs.items)

\* Python truth value testing, as used by `not x` and `if x := ...`.
Truthy(v) ==
    CASE v.t = "none" -> FALSE
      [] v.t = "int" -> v.n # 0
      [] v.t = "str" -> v.s # ""
      [] v.t = "bool" -> v.b
      [] v.t \in {"list", "QuerySet", "slice"} -> Len(v.items) > 0
      [] OTHER -> TRUE

(***************************************************************************)
(* handle_datetime_value                                                   *)
(***************************************************************************)
\* A number below 100 in two digits, as %d and %H print it.
TwoDigits(n) ==
    <<"0", "1", "2", "3", "4", "5", "6", "7", "8", "9">>[(n \div 10) + 1]
    \o <<"0", "1", "2", "3", "4", "5", "6", "7", "8", "9">>[(n % 10) + 1]

\* value.astimezone(pytz.UTC): the same moment on the UTC clock.
AsTimezoneUTC(value) ==
    LET hours == 24 * value.day + value.hour - value.utcoffset
    IN  Datetime(hours \div 24, hours % 24, TRUE, 0)

\* pytz.UTC.localize(value): the same clock reading, declared to be UTC.
LocalizeUTC(value) == Datetime(value.day, value.hour, TRUE, 0)

\* strftime('%Y-%m-%d'), for the days from 2022-12-31 to 2023-01-31.
StrftimeDate(value) ==
    IF value.day < 0 THEN "2022-12-31"
    ELSE "2023-01-" \o TwoDigits(value.day + 1)

\* strftime('%Y-%m-%d %H:%M:%S')
Strftime(value) ==
    StrftimeDate(value) \o " " \o TwoDigits(value.hour) \o ":00:00"

\* handle_datetime_value
HandleDatetimeValue(value) ==
    LET utc_value == IF value.aware THEN AsTimezoneUTC(value)
                     ELSE LocalizeUTC(value)
    IN  StrVal(Strftime(utc_value))

(***************************************************************************)
(* batch_qs                                                                *)
(***************************************************************************)
\* A range that takes its stop value too.
RECURSIVE RangeInclusive(_, _, _)
RangeInclusive(start, stop, step) ==
    IF start > stop THEN <<>>
    ELSE <<start>> \o RangeInclusive(start + step, stop, step)

\* range(start, stop, step) for step > 0
RECURSIVE Range(_, _, _)
Range(start, stop, step) ==
    IF start >= stop THEN <<>>
    ELSE <<start>> \o Range(start + step, stop, step)

Min(a, b) == IF a < b THEN a ELSE b

\* batch_qs iterating over range(0, total - 1, batch_size).
BatchQSShortRange(qs, batch_size) ==
    LET total == Count(qs)
    IN  IF batch_size.t = "none"
        THEN << <<0, total, total, qs>> >>
        ELSE LET starts == Range(0, total - 1, batch_size.n)
             IN  [k \in 1..Len(starts) |->
                    LET start == starts[k]
                        end == Min(start + batch_size.n, total)
                    IN  <<start, end, total, Slice(qs, start, end)>>]

\* batch_qs yielding qs[0:total] in the unbounded case.
BatchQSSliceAll(qs, batch_size) ==
    LET total == Count(qs)
    IN  IF batch_size.t = "none"
        THEN << <<0, total, total, Slice(qs, 0, total)>> >>
        ELSE LET starts == Range(0, total, batch_size.n)
             IN  [k \in 1..Len(starts) |->
                    LET start == starts[k]
                        end == Min(start + batch_size.n, total)
                    IN  <<start, end, total, Slice(qs, start, end)>>]

\* batch_qs slicing one record past the end of each window.
BatchQSOverlapping(qs, batch_size) ==
    LET total == Count(qs)
    IN  IF batch_size.t = "none"
        THEN << <<0, total, total, qs>> >>
        ELSE LET starts == Range(0, total, batch_size.n)
             IN  [k \in 1..Len(starts) |->
                    LET start == starts[k]
                        end == Min(start + batch_size.n + 1, total)
                    IN  <<start, end, total, Slice(qs, start, end)>>]

\* The sequence of (start, end, total, queryset) tuples the generator yields.
BatchQS(qs, batch_size) ==
    LET total == Count(qs)
    IN  IF batch_size.t = "none"
        THEN << <<0, total, total, qs>> >>
        ELSE LET starts == Range(0, total, batch_size.n)
             IN  [k \in 1..Len(starts) |->
                    LET start == starts[k]
                        end == Min(start + batch_size.n, total)
                    IN  <<start, end, total, Slice(qs, start, end)>>]

(***************************************************************************)
(* Exporter configuration and row processing                               *)
(***************************************************************************)
\* The class attributes a BigQueryExporter subclass sets. No method of the
\* exporter assigns them.
VARIABLES
    model,                     \* self.model: None or the model class
    fields,                    \* self.fields: the declared field names
    table_name,                \* self.table_name
    replace_nulls_with_empty,  \* self.replace_nulls_with_empty
    pull_date_field_name       \* self.pull_date_field_name

cfgVars ==
    <<model, fields, table_name, replace_nulls_with_empty, pull_date_field_name>>

\* The model class of the exporter.
ModelClass == [t |-> "class", name |-> "Item"]

\* The exporter the export() runs are made with: it declares a model
\* attribute and a method decorated with @custom_field, and leaves
\* replace_nulls_with_empty and pull_date_field_name at their defaults.
InitStudy ==
    /\ model = ModelClass
    /\ fields = <<"id", "custom_field">>
    /\ table_name = "test_table"
    /\ replace_nulls_with_empty = FALSE
    /\ pull_date_field_name = "pull_date"

\* Names bound on the exporter to a callable carrying is_custom_field.
CustomFieldNames == {"custom_field", "custom_null", "custom_date"}

\* The attributes of the model's records.
ModelAttrs ==
    {"id", "name", "count", "score", "active", "meta", "shape", "note",
     "date_created", "uuid"}

\* table.schema: the columns of the sink table, each with its field_type.
\* The model attribute "note" has no column.
TableSchema ==
    << [name |-> "id", field_type |-> "INTEGER"],
       [name |-> "name", field_type |-> "STRING"],
       [name |-> "count", field_type |-> "INTEGER"],
       [name |-> "score", field_type |-> "FLOAT"],
       [name |-> "active", field_type |-> "BOOLEAN"],
       [name |-> "meta", field_type |-> "JSON"],
       [name |-> "shape", field_type |-> "GEOGRAPHY"],
       [name |-> "date_created", field_type |-> "TIMESTAMP"],
       [name |-> "uuid", field_type |-> "STRING"],
       [name |-> "custom_field", field_type |-> "INTEGER"],
       [name |-> "pull_date", field_type |-> "TIMESTAMP"] >>

\* BQ_TYPE_DEFAULTS
BQ_TYPE_DEFAULTS ==
    [STRING |-> StrVal(""), INTEGER |-> IntVal(0), FLOAT |-> FloatVal("0.0"),
     NUMERIC |-> FloatVal("0.0"), BOOLEAN |-> BoolVal(FALSE),
     TIMESTAMP |-> StrVal(""), DATE |-> StrVal(""), TIME |-> StrVal(""),
     DATETIME |-> StrVal(""), RECORD |-> DictVal({}), BYTES |-> BytesVal(""),
     JSON |-> StrVal("{}")]

\* getattr(model_instance, field). A record is named by its primary key; a
\* record with an even key holds null in every other attribute, a record
\* with an odd key holds a value of the attribute's type.
GetAttr(model_instance, field) ==
    CASE field = "id" -> IntVal(model_instance)
      [] model_instance % 2 = 0 -> NoneVal
      [] field = "name" -> StrVal("test")
      [] field = "count" -> IntVal(0)
      [] field = "score" -> FloatVal("3.14")
      [] field = "active" -> BoolVal(model_instance % 4 = 1)
      [] field = "meta" -> StrVal("{}")
      [] field = "shape" -> StrVal("POINT(0 0)")
      [] field = "note" -> StrVal("")
      [] field = "date_created" ->
            Datetime(0, 12, model_instance % 4 = 3,
                     IF model_instance % 4 = 3 THEN 2 ELSE 0)
      [] field = "uuid" -> UUIDVal("123e4567-e89b-12d3-a456-426614174000")

\* The exporter's custom field methods, called with the record.
CustomField(field, model_instance) ==
    CASE field = "custom_field" -> IntVal(2 * model_instance)
      [] field = "custom_null" -> NoneVal
      [] field = "custom_date" -> Datetime(0, 12, TRUE, 2)

\* _sanitize_value replacing None whatever replace_nulls_with_empty says.
SanitizeValueAlwaysReplaces(value) ==
    CASE value.t = "datetime" ->
            LET dropped == HandleDatetimeValue(value) IN NoneVal
      [] value.t = "uuid" -> StrVal(value.u)
      [] value.t = "none" -> StrVal("")
      [] OTHER -> value

\* _sanitize_value testing `not value` where it tests `value is None`.
SanitizeValueFalsyIsNull(value) ==
    CASE value.t = "datetime" ->
            LET dropped == HandleDatetimeValue(value) IN NoneVal
      [] value.t = "uuid" -> StrVal(value.u)
      [] ~Truthy(value) ->
            IF replace_nulls_with_empty THEN StrVal("") ELSE NoneVal
      [] OTHER -> value

\* _sanitize_value: the datetime branch calls handle_datetime_value and
\* drops its result, so the method falls off its end and returns None.
SanitizeValue(value) ==
    CASE value.t = "datetime" ->
            LET dropped == HandleDatetimeValue(value) IN NoneVal
      [] value.t = "uuid" -> StrVal(value.u)
      [] value.t = "none" ->
            IF replace_nulls_with_empty THEN StrVal("") ELSE NoneVal
      [] OTHER -> value

\* _process_field passing the custom field's result through _sanitize_value.
ProcessFieldSanitizesAll(model_instance, field) ==
    IF field \in CustomFieldNames
    THEN SanitizeValue(CustomField(field, model_instance))
    ELSE SanitizeValue(GetAttr(model_instance, field))

\* _process_field
ProcessField(model_instance, field) ==
    IF field \in CustomFieldNames
    THEN CustomField(field, model_instance)
    ELSE SanitizeValue(GetAttr(model_instance, field))

FieldSet == {fields[i] : i \in DOMAIN fields}

\* The dict built for one record: the pull date key is written first, the
\* declared fields after it.
ProcessedRow(model_instance, pull, include) ==
    [k \in FieldSet \cup (IF include THEN {pull_date_field_name} ELSE {}) |->
        IF k \in FieldSet
        THEN ProcessField(model_instance, k)
        ELSE SanitizeValue(pull)]

\* _process_queryset: one dict per record, in iteration order.
ProcessQueryset(qs, pull, include) ==
    [i \in 1..Len(qs.items) |-> ProcessedRow(qs.items[i], pull, include)]

(***************************************************************************)
(* The sink: client.insert_rows                                            *)
(***************************************************************************)
TransportErrors == {"GoogleAPICallError", "RetryError"}

\* The elements of a set of integers in ascending order.
RECURSIVE Ascending(_)
Ascending(S) ==
    IF S = {} THEN <<>>
    ELSE LET m == CHOOSE x \in S : \A y \in S : x <= y
         IN  <<m>> \o Ascending(S \ {m})

\* What insert_rows can answer to a push of `data`: it raises a transport
\* error, or it returns one error dict per rejected row, each carrying the
\* index of the row within `data` and the row it rejected.
SinkResponses(data) ==
    {[t |-> "raise", exc |-> e] : e \in TransportErrors}
    \cup {ListVal([k \in 1..Len(Ascending(S)) |->
                     [index |-> Ascending(S)[k], row |-> data[Ascending(S)[k] + 1]]])
          : S \in SUBSET (0..(Len(data) - 1))}

\* The value of _push_to_bigquery's parameter retry_deadline when the caller
\* passes none, in seconds.
DefaultRetryDeadline == 600

\* _push_to_bigquery handing insert_rows no Retry object.
RetryOmitted(retry_deadline) == NoneVal

\* Retry(deadline=retry_deadline): the deadline insert_rows is called with;
\* retry_deadline is None when the caller of _push_to_bigquery passes none.
Retry(retry_deadline) ==
    IF retry_deadline = NoneVal THEN IntVal(DefaultRetryDeadline)
    ELSE retry_deadline

\* _push_to_bigquery logging the exception without raising it again.
PushToBigquerySwallow(response) ==
    IF response.t = "raise" THEN NoneVal
    ELSE IF Truthy(response) THEN response
    ELSE NoneVal

\* _push_to_bigquery: the exception is logged and raised again; a non-empty
\* error list is returned; otherwise the method returns None.
PushToBigquery(response) ==
    IF response.t = "raise" THEN response
    ELSE IF Truthy(response) THEN response
    ELSE NoneVal

(***************************************************************************)
(* export(): argument handling                                             *)
(***************************************************************************)
\* `... if not pull_date else pull_date`
UsesDefault(arg) == ~Truthy(arg)

\* `pull_date and not isinstance(pull_date, datetime.datetime)`
PullDateInvalidIfTruthy(pull_date) ==
    Truthy(pull_date) /\ pull_date.t # "datetime"

\* `pull_date is not None and not isinstance(pull_date, datetime.datetime)`
PullDateInvalid(pull_date) ==
    pull_date.t # "none" /\ pull_date.t # "datetime"

\* `not isinstance(queryset, QuerySet)`
QuerysetInvalid(qs) == qs.t # "QuerySet"

\* The ordering check with `queryset.count() >= self.batch`.
MustBeOrderedAtLeast(qs, b) ==
    b.t # "none" /\ Count(qs) >= b.n /\ ~qs.ordered

\* `(self.batch is not None) and (queryset.count() > self.batch)
\*  and not queryset.ordered`
MustBeOrdered(qs, b) ==
    b.t # "none" /\ Count(qs) > b.n /\ ~qs.ordered

\* The batch errors appended with the index the sink gave them.
ReindexSkipped(batch_errors, start) == batch_errors

\* `for error in batch_errors: error['index'] += start`
Reindex(batch_errors, start) ==
    [k \in 1..Len(batch_errors) |->
        [batch_errors[k] EXCEPT !.index = @ + start]]

\* `errors.extend(batch_errors)`
Extend(errors_, batch_errors) == errors_ \o batch_errors

(***************************************************************************)
(* State                                                                   *)
(***************************************************************************)
VARIABLES
    batch,              \* self.batch: None or a positive integer
    include_pull_date,  \* self.include_pull_date
    hookSource,         \* what define_queryset() returns
    pc,                 \* idle | loop | returned | raised
    exc,                \* the exception export() raised, or "none"
    args,               \* the arguments of the current export() call
    defineCalls,        \* define_queryset() invocations of this call
    queryset,           \* local `queryset`
    pull_datetime,      \* local `pull_datetime`
    errors,             \* local `errors`
    gen,                \* the tuples batch_qs has yet to yield
    processed,          \* _process_queryset invocations of this call
    sinkLog,            \* insert_rows invocations of this call
    returned,           \* the list export() returned
    bqArgs,             \* arguments of a direct batch_qs call
    bqGen,              \* tuples that call has yet to yield
    bqOut,              \* tuples that call has yielded
    rowCall,            \* a direct call of a row processing method
    rowOut,             \* what that call returned
    ctorOut,            \* how __init__ ended, and what it did on the way
    thdCall,            \* the argument of a table_has_data call
    thdOut,             \* the query that call issued and what it returned
    earlier             \* how the earlier export() calls of the instance ended

exportVars ==
    <<batch, include_pull_date, hookSource, pc, exc, args, defineCalls,
      queryset, pull_datetime, errors, gen, processed, sinkLog, returned>>

bqVars == <<bqArgs, bqGen, bqOut>>

rowVars == <<rowCall, rowOut>>

ctorVars == <<ctorOut>>

thdVars == <<thdCall, thdOut>>

\* What neither export() nor batch_qs touches.
sideVars == <<cfgVars, rowVars, ctorVars, thdVars>>

\* The history of the instance's export() calls; no method reads it.
histVars == <<earlier>>

vars == <<exportVars, bqVars, sideVars, histVars>>

BatchSizes == {NoneVal} \cup {IntVal(n) : n \in 1..MaxBatch}

\* Record sources: QuerySets of every size, ordered or not.
QuerySets(id) ==
    {QuerySet(id, n, o) : n \in 0..MaxTotal, o \in BOOLEAN}

\* Values a caller may pass as `queryset`.
QuerysetArgs ==
    {NoneVal, ListVal(<<>>), ListVal(<<11>>)} \cup QuerySets(1)

\* Values a caller may pass as `pull_date`.
PullDateArgs ==
    {NoneVal, DatetimeVal(0), Datetime(0, 12, TRUE, 2),
     StrVal("2025-01-01"), StrVal("")}

\* datetime.datetime.now()
Now == {DatetimeVal(c) : c \in 1..MaxClock}

NoArgs == [pull_date |-> NoneVal, queryset |-> NoneVal]

InitExport ==
    /\ batch \in BatchSizes
    /\ include_pull_date \in BOOLEAN
    /\ hookSource \in QuerySets(2)
    /\ pc = "idle"
    /\ exc = "none"
    /\ args = NoArgs
    /\ defineCalls = 0
    /\ queryset = NoneVal
    /\ pull_datetime = NoneVal
    /\ errors = <<>>
    /\ gen = <<>>
    /\ processed = 0
    /\ sinkLog = <<>>
    /\ returned = <<>>

InitBq ==
    /\ bqArgs = [qs |-> NoneVal, batch_size |-> NoneVal]
    /\ bqGen = <<>>
    /\ bqOut = <<>>

\* No row processing method, constructor or table_has_data call was made.
InitIdle ==
    /\ rowCall = [op |-> "none"]
    /\ rowOut = NoneVal
    /\ ctorOut = [result |-> "none"]
    /\ thdCall = [op |-> "none"]
    /\ thdOut = [query |-> NoneVal]
    /\ earlier = <<>>

Init == InitExport /\ InitBq /\ InitStudy /\ InitIdle

(***************************************************************************)
(* export()                                                                *)
(***************************************************************************)
\* export() reading the clock whatever pull_date it is given.
ResolvePullTimeFromClock(pull_date, now) == now

\* `datetime.datetime.now() if not pull_date else pull_date`
ResolvePullTime(pull_date, now) ==
    IF UsesDefault(pull_date) THEN now ELSE pull_date

\* export() going on with the list an earlier call left behind.
ErrorsCarriedOver(previous) == previous

\* `errors = []`: a new list, whatever list an earlier call built.
NewErrors(previous) == <<>>

\* A call of export(pull_date, qs) up to the first iteration of its loop:
\* the defaults, the three checks and `errors = []`.
ExportCall(pull_date, qs, now) ==
    /\ pc # "loop"
    /\ LET pd == ResolvePullTime(pull_date, now)
           hook == UsesDefault(qs)
           source == IF hook THEN hookSource ELSE qs
           failure ==
               IF PullDateInvalid(pull_date) THEN "TypeError"
               ELSE IF QuerysetInvalid(source) THEN "TypeError"
               ELSE IF MustBeOrdered(source, batch) THEN "ValueError"
               ELSE "none"
       IN  /\ args' = [pull_date |-> pull_date, queryset |-> qs]
           /\ defineCalls' = IF hook THEN 1 ELSE 0
           /\ pull_datetime' = pd
           /\ queryset' = source
           /\ exc' = failure
           /\ pc' = IF failure = "none" THEN "loop" ELSE "raised"
           /\ gen' = IF failure = "none" THEN BatchQS(source, batch) ELSE <<>>
           /\ errors' = NewErrors(errors)
           /\ processed' = 0
           /\ sinkLog' = <<>>
           /\ returned' = <<>>
    /\ UNCHANGED <<batch, include_pull_date, hookSource, bqVars, sideVars>>

\* export()'s except clause logging the exception and going on to
\* `return errors`.
ExceptClauseReturns(e) ==
    [pc |-> "returned", exc |-> "none", returned |-> errors]

\* export()'s except clause for GoogleAPICallError and RetryError: the
\* exception is logged and raised again, so nothing is returned.
ExceptClause(e) ==
    [pc |-> "raised", exc |-> e, returned |-> returned]

\* export() pushing whatever _process_queryset returned.
PushesAnyBatch(reporting_data) == TRUE

\* `if reporting_data := self._process_queryset(qs, pull_datetime)`: the
\* batch is pushed when the list of rows is not empty.
PushesBatch(reporting_data) == Len(reporting_data) > 0

\* One iteration of the loop over batch_qs(queryset, self.batch).
ExportBatch ==
    /\ pc = "loop"
    /\ gen # <<>>
    /\ LET start == Head(gen)[1]
           qs == Head(gen)[4]
           reporting_data == ProcessQueryset(qs, pull_datetime, include_pull_date)
       IN  /\ gen' = Tail(gen)
           /\ processed' = processed + 1
           /\ IF ~PushesBatch(reporting_data)
              THEN UNCHANGED <<pc, exc, errors, sinkLog, returned>>
              ELSE \E response \in SinkResponses(reporting_data) :
                     LET batch_errors == PushToBigquery(response)
                     IN  /\ sinkLog' = Append(sinkLog,
                                [data |-> reporting_data, response |-> response,
                                 retry |-> Retry(NoneVal),
                                 pull |-> pull_datetime])
                         /\ IF batch_errors.t = "raise"
                            THEN /\ pc' = ExceptClause(batch_errors.exc).pc
                                 /\ exc' = ExceptClause(batch_errors.exc).exc
                                 /\ returned' =
                                      ExceptClause(batch_errors.exc).returned
                                 /\ UNCHANGED errors
                            ELSE /\ UNCHANGED <<pc, exc, returned>>
                                 /\ errors' =
                                      IF Truthy(batch_errors)
                                      THEN Extend(errors,
                                                  Reindex(batch_errors.items, start))
                                      ELSE errors
    /\ UNCHANGED <<batch, include_pull_date, hookSource, args, defineCalls,
                   queryset, pull_datetime, bqVars, sideVars, histVars>>

\* `datetime.datetime.now() - pull_datetime` in the message logged after the
\* loop: now() is naive, and subtracting an aware datetime from a naive one
\* raises TypeError.
ElapsedRaises(pull) == pull.t # "datetime" \/ pull.aware

\* The loop is exhausted: the elapsed time is logged, then `return errors`.
\* The TypeError of the subtraction is not caught by the except clause.
ExportReturn ==
    /\ pc = "loop"
    /\ gen = <<>>
    /\ IF ElapsedRaises(pull_datetime)
       THEN /\ pc' = "raised"
            /\ exc' = "TypeError"
            /\ UNCHANGED returned
       ELSE /\ pc' = "returned"
            /\ returned' = errors
            /\ UNCHANGED exc
    /\ UNCHANGED <<batch, include_pull_date, hookSource, args, defineCalls,
                   queryset, pull_datetime, errors, gen, processed, sinkLog,
                   bqVars, sideVars, histVars>>

\* What datetime.datetime.now() may return to a call: the clock is read only
\* when the default pull date is used.
ClockReadings(pull_date) ==
    IF UsesDefault(pull_date) THEN Now ELSE {NoneVal}

Export ==
    \E pull_date \in PullDateArgs, qs \in QuerysetArgs :
        \E now \in ClockReadings(pull_date) :
            /\ ExportCall(pull_date, qs, now)
            /\ UNCHANGED histVars

Next == Export \/ ExportBatch \/ ExportReturn

Spec == Init /\ [][Next]_vars

(***************************************************************************)
(* batch_qs called on its own                                              *)
(***************************************************************************)
\* batch_qs(qs, batch_size): the generator is created.
BatchQsCall(qs, batch_size) ==
    /\ bqArgs' = [qs |-> qs, batch_size |-> batch_size]
    /\ bqGen' = BatchQS(qs, batch_size)
    /\ bqOut' = <<>>
    /\ UNCHANGED <<exportVars, sideVars, histVars>>

\* next() on the generator: it yields its next tuple.
BatchQsNext ==
    /\ bqGen # <<>>
    /\ bqOut' = Append(bqOut, Head(bqGen))
    /\ bqGen' = Tail(bqGen)
    /\ UNCHANGED <<bqArgs, exportVars, sideVars, histVars>>

BatchQs ==
    \E qs \in QuerySets(1) \cup QuerySets(2), batch_size \in BatchSizes :
        BatchQsCall(qs, batch_size)

InitBatch ==
    /\ Init
    /\ batch = NoneVal
    /\ include_pull_date = FALSE
    /\ hookSource = QuerySet(2, 0, TRUE)

NextBatch == BatchQs \/ BatchQsNext

SpecBatch == InitBatch /\ [][NextBatch]_vars

(***************************************************************************)
(* Properties of batch_qs, checked under SpecBatch                         *)
(***************************************************************************)
\* A direct batch_qs call has been made.
BqCalled == bqArgs.qs.t = "QuerySet"

\* Every tuple of the call, yielded or still to come, in yield order.
BqAll == bqOut \o bqGen

RECURSIVE ConcatItems(_)
ConcatItems(tuples) ==
    IF tuples = <<>> THEN <<>>
    ELSE Head(tuples)[4].items \o ConcatItems(Tail(tuples))

\* C2: for total >= 0 and batch_size > 0, an exhausted batch_qs generator has
\* yielded exactly ceil(total / batch_size) tuples; their slices concatenated
\* in yield order are the source sequence (they cover [0, total) with no gap
\* and no overlap); start offsets strictly increase; every batch but possibly
\* the last has end - start = batch_size.
Thm_C2_BatchesPartitionSource ==
    (BqCalled /\ bqArgs.batch_size.t = "int" /\ bqGen = <<>>) =>
        LET total == Count(bqArgs.qs)
            bs == bqArgs.batch_size.n
            n == Len(bqOut)
        IN  /\ n * bs >= total
            /\ (n - 1) * bs < total \/ (n = 0 /\ total = 0)
            /\ ConcatItems(bqOut) = bqArgs.qs.items
            /\ \A k \in 1..n : bqOut[k][3] = total
            /\ n > 0 => (bqOut[1][1] = 0 /\ bqOut[n][2] = total)
            /\ \A k \in 1..(n - 1) :
                 /\ bqOut[k][1] < bqOut[k + 1][1]
                 /\ bqOut[k][2] = bqOut[k + 1][1]
                 /\ bqOut[k][2] - bqOut[k][1] = bs
            /\ \A k \in 1..n :
                 /\ bqOut[k][1] < bqOut[k][2]
                 /\ bqOut[k][2] - bqOut[k][1] <= bs
                 /\ bqOut[k][4].items =
                      SubSeq(bqArgs.qs.items, bqOut[k][1] + 1, bqOut[k][2])

\* C2 witness: a call that yielded several batches, the last one short.
Wit_C2_ShortLastBatch ==
    /\ BqCalled /\ bqArgs.batch_size.t = "int" /\ bqGen = <<>>
    /\ Len(bqOut) >= 2
    /\ bqOut[Len(bqOut)][2] - bqOut[Len(bqOut)][1] < bqArgs.batch_size.n

\* C3 as stated: batching an empty source yields zero batches for every batch
\* size, the unbounded sentinel None included.
Orig_C3_EmptySourceNoBatches ==
    (BqCalled /\ Count(bqArgs.qs) = 0) => Len(BqAll) = 0

\* C3 amended: batching an empty source yields zero batches for every
\* positive batch size; with the unbounded sentinel None it yields the single
\* batch (0, 0, 0, source).
Thm_C3_EmptySource ==
    (BqCalled /\ Count(bqArgs.qs) = 0) =>
        IF bqArgs.batch_size.t = "none"
        THEN BqAll = << <<0, 0, 0, bqArgs.qs>> >>
        ELSE BqAll = <<>>

\* C3 witness: the generator of an empty source and batch size None has
\* yielded its one batch.
Wit_C3_EmptySourceUnbounded ==
    /\ BqCalled /\ Count(bqArgs.qs) = 0
    /\ bqArgs.batch_size.t = "none"
    /\ bqGen = <<>> /\ Len(bqOut) = 1

\* C4: with batch_size None the call yields exactly one batch, equal to
\* (0, total, total, source), whose fourth component is the input source
\* itself and not a slice taken from it.
Thm_C4_UnboundedPassesSourceThrough ==
    (BqCalled /\ bqArgs.batch_size.t = "none") =>
        /\ Len(BqAll) = 1
        /\ BqAll[1] = <<0, Count(bqArgs.qs), Count(bqArgs.qs), bqArgs.qs>>
        /\ BqAll[1][4].t = "QuerySet"
        /\ BqAll[1][4].id = bqArgs.qs.id

\* C4 witness: a non-empty source batched with None, its batch yielded.
Wit_C4_UnboundedYielded ==
    /\ BqCalled /\ bqArgs.batch_size.t = "none"
    /\ Count(bqArgs.qs) >= 2
    /\ bqGen = <<>> /\ Len(bqOut) = 1

(***************************************************************************)
(* Properties of export(), checked under Spec                              *)
(***************************************************************************)
\* The record a processed row was built from.
RecordOf(row) == row["id"].n

\* The position (from 1) of record r in a sequence of distinct records.
PosOf(items, r) == CHOOSE i \in DOMAIN items : items[i] = r

\* The offset, in the full record set, of the first record of a pushed batch.
BatchOffset(entry) == PosOf(queryset.items, RecordOf(entry.data[1])) - 1

\* The pushes of this call that returned normally, and the ones that raised.
Answered == {j \in DOMAIN sinkLog : sinkLog[j].response.t = "list"}

Failed == {j \in DOMAIN sinkLog : sinkLog[j].response.t = "raise"}

\* export() raised at one of its three argument checks, before the loop.
RejectedAtCall ==
    /\ pc = "raised"
    /\ \/ args.pull_date.t \notin {"none", "datetime"}
       \/ queryset.t # "QuerySet"
       \/ exc = "ValueError"

\* export() went through every batch and raised where it logs the elapsed
\* time.
RaisedAfterLoop ==
    /\ pc = "raised"
    /\ ~RejectedAtCall
    /\ Failed = {}

\* Every error dict the sink has returned to this call, in report order,
\* with the batch-relative index the sink gave it.
RECURSIVE Reported(_)
Reported(log) ==
    IF log = <<>> THEN <<>>
    ELSE (IF Head(log).response.t = "list" THEN Head(log).response.items ELSE <<>>)
         \o Reported(Tail(log))

RECURSIVE PushedRows(_)
PushedRows(log) ==
    IF log = <<>> THEN <<>>
    ELSE Head(log).data \o PushedRows(Tail(log))

\* C1: every error in the list export() builds and returns carries an index
\* relative to the full record set: it is the position in the source of the
\* record the sink rejected, and it equals s + i where s is the start offset
\* of the batch the sink reported it for and i its index within that batch.
Thm_C1_ErrorIndexIsGlobal ==
    \A k \in DOMAIN errors :
        LET e == errors[k]
        IN  /\ e.index \in 0..(Count(queryset) - 1)
            /\ queryset.items[e.index + 1] = RecordOf(e.row)
            /\ \E j \in Answered :
                 \E m \in DOMAIN sinkLog[j].response.items :
                    /\ sinkLog[j].response.items[m].row = e.row
                    /\ e.index =
                         BatchOffset(sinkLog[j]) + sinkLog[j].response.items[m].index
            /\ pc = "returned" => returned[k] = e

\* C1 witness: export() returned an error the sink reported with index 0 for
\* a second batch; its returned index is that batch's start offset.
Wit_C1_SecondBatchError ==
    /\ pc = "returned"
    /\ Len(sinkLog) >= 2
    /\ sinkLog[2].response.t = "list"
    /\ Len(sinkLog[2].response.items) >= 1
    /\ sinkLog[2].response.items[1].index = 0
    /\ \E k \in DOMAIN returned :
         /\ returned[k].row = sinkLog[2].response.items[1].row
         /\ returned[k].index = Len(sinkLog[1].data)
         /\ returned[k].index > 0

\* C5: a transport failure of a push (GoogleAPICallError or RetryError raised
\* by insert_rows) ends the export() call with that exception: the failed
\* push is the last push of the call, every batch after it is left
\* unprocessed in the generator, and nothing is returned.
Thm_C5_TransportFailureIsFatal ==
    \A j \in Failed :
        /\ j = Len(sinkLog)
        /\ pc = "raised"
        /\ exc = sinkLog[j].response.exc
        /\ exc \in TransportErrors
        /\ processed = j
        /\ Len(gen) = Len(BatchQS(queryset, batch)) - j
        /\ returned = <<>>

\* C5 witness: the push of a batch that is neither the first nor the last
\* failed, and export() raised.
Wit_C5_MiddleBatchFails ==
    /\ pc = "raised"
    /\ exc \in TransportErrors
    /\ Len(sinkLog) = 2
    /\ gen # <<>>

\* C6 as stated: row errors never raise and never abort the export: a call
\* that passed the argument checks and met no transport failure pushes every
\* record of the source and returns normally, its result being exactly the
\* errors the sink reported, in report order, none dropped and none
\* duplicated (so empty when none was reported).
Orig_C6_RowErrorsAreReturned ==
    /\ pc = "raised" => (RejectedAtCall \/ Len(sinkLog) \in Failed)
    /\ (pc \in {"loop", "returned"}) =>
          /\ exc = "none"
          /\ Failed = {}
          /\ Len(errors) = Len(Reported(sinkLog))
          /\ \A k \in DOMAIN errors : errors[k].row = Reported(sinkLog)[k].row
    /\ pc = "returned" =>
          /\ returned = errors
          /\ gen = <<>>
          /\ processed = Len(BatchQS(queryset, batch))
          /\ Len(PushedRows(sinkLog)) = Count(queryset)
          /\ \A i \in 1..Count(queryset) :
                RecordOf(PushedRows(sinkLog)[i]) = queryset.items[i]

\* An export() call has been made and has passed or failed its checks.
Called == pc # "idle"

\* The records handed to the sink by this call.
PushedRecords == {RecordOf(PushedRows(sinkLog)[i]) : i \in DOMAIN PushedRows(sinkLog)}

ItemSet(qs) == {qs.items[i] : i \in DOMAIN qs.items}

\* C7 as stated: whenever a record source is supplied to export(), an empty
\* one included, define_queryset() is not invoked and only records of the
\* supplied source are exported; whenever none is supplied, the hook is
\* invoked exactly once and its result is the source exported.
Orig_C7_HookOnlyWhenNoSource ==
    /\ (Called /\ args.queryset.t = "QuerySet") =>
          /\ defineCalls = 0
          /\ PushedRecords \subseteq ItemSet(args.queryset)
    /\ (Called /\ args.queryset.t = "none") =>
          /\ defineCalls = 1
          /\ queryset = hookSource

\* C8 as stated: a supplied record source that is not a QuerySet, an empty
\* list included, is rejected with TypeError before any batch is processed or
\* pushed.
Orig_C8_NonQuerySetRejected ==
    (Called /\ args.queryset.t \notin {"none", "QuerySet"}) =>
        /\ pc = "raised"
        /\ exc = "TypeError"
        /\ processed = 0
        /\ sinkLog = <<>>

\* C9: a pull_date that is supplied (not None) and is not a datetime makes
\* export() raise TypeError before any batch processing: no record is
\* processed and no push is made in that call.
Thm_C9_BadPullDateRejected ==
    (Called /\ args.pull_date.t \notin {"none", "datetime"}) =>
        /\ pc = "raised"
        /\ exc = "TypeError"
        /\ processed = 0
        /\ sinkLog = <<>>
        /\ gen = <<>>

\* C9 witness: export() was called with the empty string as pull_date, a
\* falsy value that is not None, and raised TypeError.
Wit_C9_FalsyPullDateRejected ==
    /\ pc = "raised"
    /\ exc = "TypeError"
    /\ args.pull_date = StrVal("")
    /\ args.queryset.t = "QuerySet"
    /\ Count(args.queryset) > 0

\* C10: among the calls whose arguments pass the type checks, export()
\* raises ValueError, before any batch is processed or pushed, exactly when
\* the batch size is bounded, the record count exceeds it and the source is
\* not ordered; an unordered source is accepted when the batch size is None
\* or the record count is at most the batch size.
Thm_C10_UnorderedOversizedRejected ==
    (Called /\ args.pull_date.t \in {"none", "datetime"} /\ queryset.t = "QuerySet") =>
        /\ (exc = "ValueError") <=>
              (batch.t = "int" /\ Count(queryset) > batch.n /\ ~queryset.ordered)
        /\ exc = "ValueError" =>
              (pc = "raised" /\ processed = 0 /\ sinkLog = <<>> /\ gen = <<>>)
        /\ exc # "ValueError" =>
              (pc # "raised" \/ exc \in TransportErrors \/ RaisedAfterLoop)

\* C10 witness: an unordered source holding one record more than the batch
\* size was rejected.
Wit_C10_Rejected ==
    /\ pc = "raised"
    /\ exc = "ValueError"
    /\ ~queryset.ordered
    /\ Count(queryset) = batch.n + 1

(***************************************************************************)
(* The row processing methods called on their own                          *)
(***************************************************************************)
\* Values handed to _sanitize_value.
SanitizeArgs ==
    {Datetime(d, h, a[1], a[2]) :
        d \in {0, 14}, h \in {0, 12, 23},
        a \in {<<FALSE, 0>>, <<TRUE, 0>>, <<TRUE, 2>>, <<TRUE, -5>>}}
    \cup {NoneVal, IntVal(42), IntVal(0), StrVal("test"), StrVal(""),
          FloatVal("3.14"), BoolVal(TRUE), BoolVal(FALSE),
          UUIDVal("123e4567-e89b-12d3-a456-426614174000")}

\* self._sanitize_value(value)
SanitizeCall(value) ==
    /\ rowCall' = [op |-> "sanitize", value |-> value]
    /\ rowOut' = SanitizeValue(value)
    /\ UNCHANGED <<exportVars, bqVars, cfgVars, ctorVars, thdVars, histVars>>

\* self._process_field(model_instance, field)
ProcessFieldCall(model_instance, field) ==
    /\ rowCall' = [op |-> "field", model_instance |-> model_instance,
                   field |-> field]
    /\ rowOut' = ProcessField(model_instance, field)
    /\ UNCHANGED <<exportVars, bqVars, cfgVars, ctorVars, thdVars, histVars>>

\* self._process_queryset(qs, pull)
ProcessQuerysetCall(qs, pull) ==
    /\ rowCall' = [op |-> "queryset", queryset |-> qs, pull_datetime |-> pull]
    /\ rowOut' = ListVal(ProcessQueryset(qs, pull, include_pull_date))
    /\ UNCHANGED <<exportVars, bqVars, cfgVars, ctorVars, thdVars, histVars>>

Sanitize == \E value \in SanitizeArgs : SanitizeCall(value)

ProcessFieldOf ==
    \E model_instance \in {11, 12, 13}, field \in ModelAttrs \cup CustomFieldNames :
        ProcessFieldCall(model_instance, field)

ProcessQuerysetOf ==
    \E qs \in QuerySets(1), pull \in {DatetimeVal(0), Datetime(0, 12, TRUE, 2)} :
        ProcessQuerysetCall(qs, pull)

\* Exporters of one model that differ in their declared fields and in their
\* null replacement and pull date settings.
InitRow ==
    /\ InitExport /\ InitBq /\ InitIdle
    /\ batch = NoneVal
    /\ hookSource = QuerySet(2, 0, TRUE)
    /\ model = ModelClass
    /\ table_name = "test_table"
    /\ fields \in {<<"id", "custom_field">>, <<"name", "date_created", "custom_null">>,
                   <<>>}
    /\ replace_nulls_with_empty \in BOOLEAN
    /\ pull_date_field_name \in {"pull_date", "export_time"}

NextRow == Sanitize \/ ProcessFieldOf \/ ProcessQuerysetOf

SpecRow == InitRow /\ [][NextRow]_vars

(***************************************************************************)
(* Properties of the row processing methods, checked under SpecRow         *)
(***************************************************************************)
\* The field_type of the sink column named field, "" when there is none.
ColumnType(field) ==
    IF \E i \in DOMAIN TableSchema : TableSchema[i].name = field
    THEN TableSchema[CHOOSE i \in DOMAIN TableSchema : TableSchema[i].name = field].field_type
    ELSE ""

\* The default BQ_TYPE_DEFAULTS holds for the column type of field, the empty
\* string for a type it does not hold and for a field without column.
TypeDefault(field) ==
    IF ColumnType(field) \in DOMAIN BQ_TYPE_DEFAULTS
    THEN BQ_TYPE_DEFAULTS[ColumnType(field)]
    ELSE StrVal("")

\* _process_field was called for a field read from the record, and the
\* attribute read was v.
ReadAttr(v) ==
    /\ rowCall.op = "field"
    /\ rowCall.field \notin CustomFieldNames
    /\ GetAttr(rowCall.model_instance, rowCall.field) = v

\* C11 as stated: sanitizing a datetime returns the string
\* `YYYY-MM-DD HH:MM:SS` of that instant in UTC; an aware value is converted
\* to UTC first (12:00 at UTC+2 on 2023-01-01 gives "2023-01-01 10:00:00"), a
\* naive value is formatted with its fields unchanged (naive 2023-01-01
\* 12:00:00 gives "2023-01-01 12:00:00").
Orig_C11_DatetimeSanitizedToUTCString ==
    (rowCall.op = "sanitize" /\ rowCall.value.t = "datetime") =>
        /\ rowOut = HandleDatetimeValue(rowCall.value)
        /\ rowCall.value = Datetime(0, 12, TRUE, 2) =>
              rowOut = StrVal("2023-01-01 10:00:00")
        /\ rowCall.value = Datetime(0, 12, FALSE, 0) =>
              rowOut = StrVal("2023-01-01 12:00:00")

\* C12 as stated: with replace_nulls_with_empty set, sanitizing the null
\* value of a field returns the default of the field's sink column type:
\* STRING "", INTEGER 0, FLOAT 0.0, BOOLEAN False, JSON "{}", and "" for an
\* unrecognized column type or a field without column.
Orig_C12_NullGetsTypeDefault ==
    (replace_nulls_with_empty /\ ReadAttr(NoneVal)) =>
        rowOut = TypeDefault(rowCall.field)

\* C13: with replace_nulls_with_empty unset, sanitizing a null value returns
\* null, for every field, whatever its sink column type and whether or not
\* the sink has a column for it.
Thm_C13_NullKeptWithoutReplacement ==
    ~replace_nulls_with_empty =>
        /\ (rowCall.op = "sanitize" /\ rowCall.value = NoneVal) => rowOut = NoneVal
        /\ ReadAttr(NoneVal) => rowOut = NoneVal

\* C13 witness: the null attribute of an INTEGER column was processed with
\* replace_nulls_with_empty unset.
Wit_C13_NullIntegerKept ==
    /\ ~replace_nulls_with_empty
    /\ ReadAttr(NoneVal)
    /\ ColumnType(rowCall.field) = "INTEGER"
    /\ rowOut = NoneVal

\* C14: sanitizing a value that is no datetime, no UUID and not None returns
\* it unchanged, whatever the column type of the field it was read from and
\* whatever replace_nulls_with_empty is.
Thm_C14_OtherValuesUnchanged ==
    /\ (rowCall.op = "sanitize"
        /\ rowCall.value.t \notin {"datetime", "uuid", "none"}) =>
          rowOut = rowCall.value
    /\ (rowCall.op = "field" /\ rowCall.field \notin CustomFieldNames) =>
          LET model_field == GetAttr(rowCall.model_instance, rowCall.field)
          IN  model_field.t \notin {"datetime", "uuid", "none"} =>
                  rowOut = model_field
    /\ (rowCall.op = "sanitize" /\ rowCall.value = StrVal("test")) =>
          rowOut = StrVal("test")
    /\ (rowCall.op = "sanitize" /\ rowCall.value = IntVal(42)) =>
          rowOut = IntVal(42)
    /\ (rowCall.op = "sanitize" /\ rowCall.value = FloatVal("3.14")) =>
          rowOut = FloatVal("3.14")
    /\ (rowCall.op = "sanitize" /\ rowCall.value = BoolVal(TRUE)) =>
          rowOut = BoolVal(TRUE)

\* C14 witness: the integer 0 was sanitized with replace_nulls_with_empty set
\* and came back as 0.
Wit_C14_ZeroUnchanged ==
    /\ replace_nulls_with_empty
    /\ rowCall.op = "sanitize"
    /\ rowCall.value = IntVal(0)
    /\ rowOut = IntVal(0)

\* C15: _process_field applies exactly one of two rules: for a name bound to
\* a custom field method the value is the method's raw result for the record,
\* not sanitized (None stays None even with replace_nulls_with_empty set, a
\* datetime stays a datetime); for any other name it is the sanitized value
\* of the record's attribute of that name.
Thm_C15_CustomRawElseSanitizedAttribute ==
    rowCall.op = "field" =>
        /\ rowCall.field \in CustomFieldNames =>
              rowOut = CustomField(rowCall.field, rowCall.model_instance)
        /\ rowCall.field = "custom_field" =>
              rowOut = IntVal(2 * rowCall.model_instance)
        /\ rowCall.field = "custom_null" => rowOut = NoneVal
        /\ rowCall.field = "custom_date" => rowOut = Datetime(0, 12, TRUE, 2)
        /\ rowCall.field \notin CustomFieldNames =>
              rowOut = SanitizeValue(GetAttr(rowCall.model_instance, rowCall.field))
        /\ (rowCall.field = "uuid" /\ rowCall.model_instance % 2 = 1) =>
              rowOut = StrVal("123e4567-e89b-12d3-a456-426614174000")

\* C15 witness: a custom field returned None with replace_nulls_with_empty
\* set, and None is the field's value.
Wit_C15_CustomNullKept ==
    /\ replace_nulls_with_empty
    /\ rowCall.op = "field"
    /\ rowCall.field = "custom_null"
    /\ rowOut = NoneVal

\* C18 as stated: _process_queryset produces exactly one row per record of
\* the batch; every row holds one entry per declared field and, if and only
\* if include_pull_date is set, one more entry under pull_date_field_name
\* whose value is the pull time as a UTC `YYYY-MM-DD HH:MM:SS` string.
Orig_C18_RowsCarryFieldsAndPullDate ==
    rowCall.op = "queryset" =>
        /\ Len(rowOut.items) = Count(rowCall.queryset)
        /\ \A i \in DOMAIN rowOut.items :
             LET row == rowOut.items[i]
             IN  /\ DOMAIN row =
                      FieldSet \cup (IF include_pull_date
                                     THEN {pull_date_field_name} ELSE {})
                 /\ \A f \in FieldSet :
                      row[f] = ProcessField(rowCall.queryset.items[i], f)
                 /\ include_pull_date =>
                      row[pull_date_field_name] =
                          HandleDatetimeValue(rowCall.pull_datetime)

(***************************************************************************)
(* __init__: the asserts, _initialize_client and _validate_fields          *)
(***************************************************************************)
\* Names hasattr(self, name) finds on an exporter once _initialize_client has
\* returned: the class attributes, the methods, the custom field methods and
\* the instance attributes client and table.
ExporterAttrs ==
    CustomFieldNames \cup
    {"model", "fields", "batch", "table_name", "replace_nulls_with_empty",
     "include_pull_date", "pull_date_field_name", "define_queryset", "export",
     "table_has_data", "client", "table"}

\* hasattr(self.model, field)
ModelHasAttr(field) == field \in ModelAttrs

\* The first element of seq that is in the set bad, "" when there is none:
\* the field a validation loop raises for.
FirstBad(seq, bad) ==
    IF \E i \in DOMAIN seq : seq[i] \in bad
    THEN seq[CHOOSE i \in DOMAIN seq :
                 seq[i] \in bad /\ \A j \in 1..(i - 1) : seq[j] \notin bad]
    ELSE ""

\* The test of _validate_fields_against_model
InvalidForModel(field) ==
    ~ModelHasAttr(field) /\ field \notin ExporterAttrs

\* The test of _validate_fields_against_table; columns are the names of
\* self.table.schema.
MissingInTable(field, columns) == field \notin columns

\* __init__ asserting the model only.
AssertsModelOnly == model # NoneVal

\* The two asserts that open __init__.
AssertsHold == model # NoneVal /\ table_name # ""

\* How __init__ ends and what it did on the way. client_ok: bigquery.Client
\* returns (otherwise it raises GoogleAPICallError); table_ok: get_table
\* returns a table with these columns (otherwise it raises
\* GoogleAPICallError).
InitOutcome(client_ok, table_ok, columns) ==
    LET Ended(result, calls, field) ==
            [result |-> result, calls |-> calls, field |-> field,
             client_ok |-> client_ok, table_ok |-> table_ok,
             columns |-> IF "get_table" \in {calls[i] : i \in DOMAIN calls}
                            /\ table_ok
                         THEN columns ELSE {}]
        bad_model == FirstBad(fields, {f \in FieldSet : InvalidForModel(f)})
        bad_table ==
            FirstBad(fields, {f \in FieldSet : MissingInTable(f, columns)})
    IN  IF ~AssertsHold THEN Ended("AssertionError", <<>>, "")
        ELSE IF ~client_ok
        THEN Ended("BigQueryExporterInitError", <<"Client">>, "")
        ELSE IF ~table_ok
        THEN Ended("BigQueryExporterInitError", <<"Client", "get_table">>, "")
        ELSE IF bad_model # ""
        THEN Ended("BigQueryExporterValidationError",
                   <<"Client", "get_table", "_validate_fields_against_model">>,
                   bad_model)
        ELSE IF bad_table # ""
        THEN Ended("BigQueryExporterValidationError",
                   <<"Client", "get_table", "_validate_fields_against_model",
                     "_validate_fields_against_table">>,
                   bad_table)
        ELSE Ended("ok",
                   <<"Client", "get_table", "_validate_fields_against_model",
                     "_validate_fields_against_table">>,
                   "")

\* Column names a sink table may have.
ColumnSets ==
    {{n.name : n \in {TableSchema[i] : i \in DOMAIN TableSchema}}}
    \cup SUBSET {"id", "custom_field", "batch", "pull_date"}

\* Field lists a subclass may declare.
FieldLists ==
    {<<>>, <<"id">>, <<"id", "custom_field">>, <<"id", "batch">>,
     <<"ghost">>, <<"id", "ghost", "batch">>, <<"table_name", "id">>}

\* BigQueryExporter(project, credentials)
Construct(client_ok, table_ok, columns) ==
    /\ ctorOut' = InitOutcome(client_ok, table_ok, columns)
    /\ UNCHANGED <<exportVars, bqVars, cfgVars, rowVars, thdVars, histVars>>

Constructor ==
    \E client_ok \in BOOLEAN, table_ok \in BOOLEAN, columns \in ColumnSets :
        Construct(client_ok, table_ok, columns)

InitCtor ==
    /\ InitExport /\ InitBq /\ InitIdle
    /\ batch = NoneVal
    /\ hookSource = QuerySet(2, 0, TRUE)
    /\ model \in {NoneVal, ModelClass}
    /\ table_name \in {"", "test_table"}
    /\ fields \in FieldLists
    /\ replace_nulls_with_empty = FALSE
    /\ pull_date_field_name \in {"pull_date", "export_time"}

NextCtor == Constructor

SpecCtor == InitCtor /\ [][NextCtor]_vars

\* __init__ returned: an exporter instance exists.
Constructed == ctorOut.result = "ok"

\* __init__ got as far as _validate_fields.
ValidationRan ==
    /\ ctorOut.result # "none"
    /\ \E i \in DOMAIN ctorOut.calls :
          ctorOut.calls[i] = "_validate_fields_against_model"

\* A name that is neither a model field nor a custom field method.
UnknownField(field) ==
    ~ModelHasAttr(field) /\ field \notin CustomFieldNames

\* C16 as stated: a declared field that is neither an attribute of the
\* record type nor a registered custom field makes construction raise the
\* validation error, so no exporter instance exists; a field whose name
\* matches only another exporter attribute (batch, table_name) is rejected
\* at construction too.
Orig_C16_UnknownFieldRejectedAtConstruction ==
    (ctorOut.result # "none" /\ \E i \in DOMAIN fields : UnknownField(fields[i])) =>
        /\ ~Constructed
        /\ ValidationRan =>
              ctorOut.result = "BigQueryExporterValidationError"

\* C17 as stated: construction succeeds only if every declared field is a
\* column of the fetched sink table and, when include_pull_date is set,
\* pull_date_field_name is a column too.
Orig_C17_FieldsAndPullDateInSinkSchema ==
    Constructed =>
        /\ \A i \in DOMAIN fields : fields[i] \in ctorOut.columns
        /\ include_pull_date => pull_date_field_name \in ctorOut.columns

(***************************************************************************)
(* table_has_data                                                          *)
(***************************************************************************)
\* f'SELECT COUNT(*) FROM {self.table_name}'
CountQuery == "SELECT COUNT(*) FROM " \o table_name

\* The count query with the WHERE clause on the pull-date column.
CountQueryForDate(date) ==
    CountQuery \o " WHERE DATE(" \o pull_date_field_name \o ") = \""
    \o date \o "\""

\* The query table_has_data builds.
TableHasDataQuery(pull_date) ==
    IF Truthy(pull_date) /\ include_pull_date
    THEN LET utc_date == IF pull_date.aware THEN AsTimezoneUTC(pull_date)
                         ELSE LocalizeUTC(pull_date)
         IN  CountQueryForDate(StrftimeDate(utc_date))
    ELSE CountQuery

\* What table_has_data returns for the rows of the query job: whether the
\* first row's count is positive, False when there is no row.
TableHasDataResult(results) ==
    IF Len(results) > 0 THEN results[1] > 0 ELSE FALSE

\* Values a caller may pass as pull_date to table_has_data.
TableHasDataArgs ==
    {NoneVal} \cup
    {Datetime(d, h, a[1], a[2]) :
        d \in {0, 14}, h \in {0, 12, 23},
        a \in {<<FALSE, 0>>, <<TRUE, 0>>, <<TRUE, 2>>, <<TRUE, -5>>}}

\* Rows the query job may return.
QueryResults == {<<>>, <<0>>, <<2>>}

\* table_has_data(pull_date); `now` is what the clock reads during the call.
TableHasDataCall(pull_date, now, results) ==
    /\ thdCall' = [op |-> "table_has_data", pull_date |-> pull_date, now |-> now]
    /\ thdOut' = [query |-> StrVal(TableHasDataQuery(pull_date)),
                  result |-> TableHasDataResult(results)]
    /\ UNCHANGED <<exportVars, bqVars, cfgVars, rowVars, ctorVars, histVars>>

TableHasData ==
    \E pull_date \in TableHasDataArgs, now \in Now, results \in QueryResults :
        TableHasDataCall(pull_date, now, results)

InitQuery ==
    /\ InitExport /\ InitBq /\ InitIdle
    /\ batch = NoneVal
    /\ hookSource = QuerySet(2, 0, TRUE)
    /\ model = ModelClass
    /\ table_name = "test_table"
    /\ fields = <<"id", "custom_field">>
    /\ replace_nulls_with_empty = FALSE
    /\ pull_date_field_name \in {"pull_date", "export_time"}

NextQuery == TableHasData

SpecQuery == InitQuery /\ [][NextQuery]_vars

\* C19 as stated: with include_pull_date set, table_has_data issues the count
\* query filtered on the pull-date column, by the UTC date of the supplied
\* pull_date (an aware value is converted to UTC, a naive one is taken as
\* UTC) or by the current date and time when no pull_date is supplied; with
\* include_pull_date unset it issues the unfiltered count even if a
\* pull_date is supplied.
Orig_C19_CountFilteredWheneverPullDateEnabled ==
    thdCall.op = "table_has_data" =>
        /\ ~include_pull_date => thdOut.query = StrVal(CountQuery)
        /\ (include_pull_date /\ thdCall.pull_date.t = "datetime") =>
              /\ thdOut.query =
                    StrVal(CountQueryForDate(StrftimeDate(
                        IF thdCall.pull_date.aware
                        THEN AsTimezoneUTC(thdCall.pull_date)
                        ELSE LocalizeUTC(thdCall.pull_date))))
              /\ (thdCall.pull_date = Datetime(0, 12, TRUE, 2)
                  /\ pull_date_field_name = "pull_date") =>
                    thdOut.query = StrVal(
                        "SELECT COUNT(*) FROM test_table WHERE DATE(pull_date) = \"2023-01-01\"")
        /\ (include_pull_date /\ thdCall.pull_date = NoneVal) =>
              thdOut.query =
                  StrVal(CountQueryForDate(StrftimeDate(LocalizeUTC(thdCall.now))))

(***************************************************************************)
(* The order and completeness of the pushes of one export() call           *)
(***************************************************************************)
\* The records of the rows the sink has received, in the order received.
ReceivedRecords ==
    [i \in 1..Len(PushedRows(sinkLog)) |-> RecordOf(PushedRows(sinkLog)[i])]

\* The rows _process_queryset builds for the whole source of this call.
SourceRows == ProcessQueryset(queryset, pull_datetime, include_pull_date)

\* C20: in an export() call without transport failure the batches are pushed
\* in strictly ascending start-offset order, and at every moment the rows the
\* sink has received, concatenated in call order, are the processed rows of
\* the source's first records in source order; once export() has returned
\* they are the processed rows of all the source's records, each exactly
\* once, none skipped and none duplicated.
Thm_C20_PushesAscendingAndComplete ==
    ((pc \in {"loop", "returned"} \/ RaisedAfterLoop) /\ Failed = {}) =>
        /\ \A j, k \in DOMAIN sinkLog :
              j < k => BatchOffset(sinkLog[j]) < BatchOffset(sinkLog[k])
        /\ Len(ReceivedRecords) <= Count(queryset)
        /\ ReceivedRecords = SubSeq(queryset.items, 1, Len(ReceivedRecords))
        /\ PushedRows(sinkLog) = SubSeq(SourceRows, 1, Len(ReceivedRecords))
        /\ (pc = "returned" \/ RaisedAfterLoop) =>
              /\ ReceivedRecords = queryset.items
              /\ PushedRows(sinkLog) = SourceRows

\* C20 witness: export() returned after three pushes of one record each,
\* none of which raised.
Wit_C20_ThreeBatchesPushed ==
    /\ pc = "returned"
    /\ Failed = {}
    /\ Len(sinkLog) = 3
    /\ Count(queryset) = 3
    /\ ReceivedRecords = queryset.items

(***************************************************************************)
(* What one export() call hands to the sink, and what it keeps to itself   *)
(***************************************************************************)
\* C21: the sink is pushed to only for batches that yield at least one row:
\* no insert call of an export() call carries an empty row list, and a batch
\* without rows (the single batch of an empty source with batch None) is
\* processed without a push.
Thm_C21_NoEmptyPush ==
    /\ \A j \in DOMAIN sinkLog : Len(sinkLog[j].data) > 0
    /\ Len(sinkLog) <= processed
    /\ (Called /\ queryset.t = "QuerySet" /\ Count(queryset) = 0) =>
          sinkLog = <<>>

\* C21 witness: export() of an empty source with batch None went through its
\* one batch and ended without any push.
Wit_C21_EmptyUnboundedNotPushed ==
    /\ pc = "returned"
    /\ batch = NoneVal
    /\ Count(queryset) = 0
    /\ processed = 1
    /\ sinkLog = <<>>

(***************************************************************************)
(* export() calls that follow each other on one exporter instance          *)
(***************************************************************************)
\* How the call that is ending now ended: returned or raised, and whether
\* it had accumulated row errors.
Ending == [ended |-> pc, errors |-> Len(errors) > 0]

\* The sources handed to the calls that follow each other: none (the hook's
\* source is used) or an ordered QuerySet.
QuerysetArgsAgain ==
    {NoneVal} \cup {QuerySet(1, n, TRUE) : n \in 0..MaxTotal}

\* export(pull_date, qs) on an instance whose earlier calls are remembered.
ExportAgain ==
    \E pull_date \in {NoneVal, DatetimeVal(0)}, qs \in QuerysetArgsAgain :
        \E now \in ClockReadings(pull_date) :
            /\ ExportCall(pull_date, qs, now)
            /\ IF pc = "idle"
               THEN UNCHANGED histVars
               ELSE /\ Len(earlier) < MaxCalls - 1
                    /\ earlier' = Append(earlier, Ending)

InitCalls ==
    /\ Init
    /\ batch \in {NoneVal, IntVal(1)}
    /\ ~include_pull_date
    /\ hookSource = QuerySet(2, 2, TRUE)

NextCalls == ExportAgain \/ ExportBatch \/ ExportReturn

SpecCalls == InitCalls /\ [][NextCalls]_vars

\* C22: each export() call owns its error list and its batch cursor: whatever
\* the earlier calls on the instance accumulated and however they ended, the
\* errors a call holds and returns are exactly the ones the sink reported
\* during this call, indexed by the record's position in this call's source,
\* a call that raises returns nothing, and the batches of a call start at
\* offset 0 and go once through its source.
Thm_C22_CallOwnsErrorsAndCursor ==
    /\ Len(errors) = Len(Reported(sinkLog))
    /\ \A k \in DOMAIN errors :
          /\ errors[k].row = Reported(sinkLog)[k].row
          /\ errors[k].index = PosOf(queryset.items, RecordOf(errors[k].row)) - 1
    /\ pc = "returned" => returned = errors
    /\ pc # "returned" => returned = <<>>
    /\ sinkLog # <<>> => BatchOffset(sinkLog[1]) = 0
    /\ (pc = "loop" /\ processed = 0 /\ gen # <<>>) => Head(gen)[1] = 0
    /\ (Called /\ ~RejectedAtCall) =>
          processed + Len(gen) = Len(BatchQS(queryset, batch))

\* C22 witness: a call that had accumulated row errors ended (it returned or
\* it raised), and the next call on the instance pushed two batches or more
\* and returned an empty list.
Wit_C22_CleanCallAfterErrors ==
    /\ earlier # <<>>
    /\ earlier[1].errors
    /\ pc = "returned"
    /\ Len(sinkLog) >= 2
    /\ returned = <<>>

(***************************************************************************)
(* The retry deadline of a push                                            *)
(***************************************************************************)
\* C23 as stated: every push made by export() carries a retry deadline, and
\* that deadline is five minutes (300 seconds).
Orig_C23_DefaultDeadlineFiveMinutes ==
    \A j \in DOMAIN sinkLog : sinkLog[j].retry = IntVal(300)

\* C23, amended: every push made by export() carries a retry deadline, and
\* since export() passes none to _push_to_bigquery that deadline is the
\* parameter's default, ten minutes (600 seconds), for every batch of the
\* call.
Thm_C23_DefaultDeadlineTenMinutes ==
    \A j \in DOMAIN sinkLog :
        /\ sinkLog[j].retry.t = "int"
        /\ sinkLog[j].retry.n = 600

\* C23 witness: two batches were pushed, each with a deadline of 600 seconds,
\* and the second push raised RetryError.
Wit_C23_TwoPushesWithDeadline ==
    /\ Len(sinkLog) = 2
    /\ sinkLog[1].retry = IntVal(600)
    /\ sinkLog[2].retry = IntVal(600)
    /\ sinkLog[2].response.t = "raise"
    /\ sinkLog[2].response.exc = "RetryError"

(***************************************************************************)
(* The order of the steps of __init__                                      *)
(***************************************************************************)
\* The steps __init__ took, as a set.
CtorCalls == {ctorOut.calls[i] : i \in DOMAIN ctorOut.calls}

\* C24: constructing an exporter whose model is None or whose table_name is
\* empty fails with AssertionError before a client is created and before
\* get_table is called; with both set, a GoogleAPICallError of the client
\* creation or of get_table ends construction with
\* BigQueryExporterInitError, and neither validation of the fields is run
\* (a failed client creation also leaves get_table uncalled).
Thm_C24_AssertsThenClientThenValidation ==
    ctorOut.result # "none" =>
        /\ (model = NoneVal \/ table_name = "") =>
              /\ ctorOut.result = "AssertionError"
              /\ ctorOut.calls = <<>>
        /\ (model # NoneVal /\ table_name # ""
            /\ (~ctorOut.client_ok \/ ~ctorOut.table_ok)) =>
              /\ ctorOut.result = "BigQueryExporterInitError"
              /\ "_validate_fields_against_model" \notin CtorCalls
              /\ "_validate_fields_against_table" \notin CtorCalls
              /\ ~ctorOut.client_ok => ctorOut.calls = <<"Client">>
              /\ ctorOut.client_ok => ctorOut.calls = <<"Client", "get_table">>

\* C24 witness: the model is set and the table name is empty, the sink would
\* have answered, and construction ended with AssertionError without
\* touching it.
Wit_C24_EmptyTableNameNoClient ==
    /\ model # NoneVal
    /\ table_name = ""
    /\ ctorOut.result = "AssertionError"
    /\ ctorOut.calls = <<>>
    /\ ctorOut.client_ok
    /\ ctorOut.table_ok

(***************************************************************************)
(* What a transport failure leaves behind                                  *)
(***************************************************************************)
\* The pushes of this call before push j.
Before(j) == SubSeq(sinkLog, 1, j - 1)

\* C25: when the push of a batch raises a transport error, every earlier
\* push of the call was answered by the sink and stays as it was: together
\* they hold the records that precede the failed batch in the source, each
\* once. The row errors those pushes reported are still in the call's list,
\* but the caller gets none of them: export() ends with the exception and
\* returns nothing.
Thm_C25_FailureKeepsPushesDropsErrors ==
    \A j \in Failed :
        /\ \A i \in 1..(j - 1) : i \in Answered
        /\ Len(PushedRows(Before(j))) = BatchOffset(sinkLog[j])
        /\ \A i \in 1..Len(PushedRows(Before(j))) :
              RecordOf(PushedRows(Before(j))[i]) = queryset.items[i]
        /\ Len(errors) = Len(Reported(Before(j)))
        /\ pc = "raised"
        /\ exc \in TransportErrors
        /\ returned = <<>>

\* C25 witness: the first push reported a row error, the second push raised
\* GoogleAPICallError, and export() raised with the error still in its list
\* and nothing returned.
Wit_C25_ErrorsLostOnFailure ==
    /\ Len(sinkLog) = 2
    /\ sinkLog[1].response.t = "list"
    /\ Len(sinkLog[1].response.items) = 1
    /\ sinkLog[2].response.t = "raise"
    /\ pc = "raised"
    /\ exc = "GoogleAPICallError"
    /\ Len(errors) = 1
    /\ returned = <<>>

(***************************************************************************)
(* The pull time of an export() call                                       *)
(***************************************************************************)
\* C26: the pull time of an export() call is resolved once, before the first
\* batch: it is the supplied pull_date, or a reading of the clock when none
\* is supplied. Every batch of the call is processed with that one pull
\* time, and with include_pull_date set every row pushed during the call has
\* an entry under pull_date_field_name, with the same value in all of them.
Thm_C26_OnePullTimePerCall ==
    (Called /\ args.pull_date.t \in {"none", "datetime"}) =>
        /\ args.pull_date.t = "datetime" => pull_datetime = args.pull_date
        /\ args.pull_date.t = "none" => pull_datetime \in Now
        /\ \A j \in DOMAIN sinkLog : sinkLog[j].pull = pull_datetime
        /\ \A j \in DOMAIN sinkLog : \A i \in DOMAIN sinkLog[j].data :
              LET row == sinkLog[j].data[i]
              IN  /\ include_pull_date <=> pull_date_field_name \in DOMAIN row
                  /\ include_pull_date =>
                        row[pull_date_field_name] =
                            sinkLog[1].data[1][pull_date_field_name]

\* C26 witness: export() was given a pull_date, include_pull_date is set,
\* and three batches were pushed, all processed with the pull_date given.
Wit_C26_ThreeBatchesOnePullTime ==
    /\ include_pull_date
    /\ args.pull_date = DatetimeVal(0)
    /\ Len(sinkLog) = 3
    /\ \A j \in 1..3 : sinkLog[j].pull = DatetimeVal(0)
    /\ pull_date_field_name \in DOMAIN sinkLog[3].data[1]

====
